---- MODULE Spec2Model ----
(***************************************************************************)
(* Veterinary dictation processor: the interactive uploader (frontend.py)  *)
(* and the batch runner (version1.py).  One run walks its file list, calls *)
(* process_audio_file (upload, poll, generate, parse, with retries),       *)
(* assembles a record for every usable result and finally builds the       *)
(* export table.  Interactive runs are browser sessions served by one      *)
(* server process: they share the working directory (fs) and the store     *)
(* table (sb_table).                                                       *)
(***************************************************************************)
EXTENDS Integers, Sequences, FiniteSets, TLC

\* ---- bounds of the model ----
MaxFiles == 2          \* longest file list of one run
MaxPolls == 1          \* most get_file polls that still answer PROCESSING
MaxInner == 3          \* longest text between the braces of an object text

\* ---- program constants ----
max_retries_plus_one == 4
max_retries == 3
RetryDelay_as_poll == 2
RetryDelay == 5

Sessions == {1, 2}
Names == 1..MaxFiles   \* file names; file k of every list is named k
NoFile == 0            \* fs: no file of that name in the working directory

CredNames == {"SUPABASE_URL", "SUPABASE_KEY", "GOOGLE_API_KEY"}
Keys == {"patient_id", "patient_name", "patient_dose", "notes_for_doctor"}
TextKeys == Keys \ {"patient_id"}

\* ---- JSON scalars: strings are sequences of characters ----
IntV(n) == [kind |-> "int", n |-> n, s |-> <<>>]
StrV(s) == [kind |-> "str", n |-> 0, s |-> s]
NaN == [kind |-> "nan", n |-> 0, s |-> <<>>]
NA == StrV(<<"N", "/", "A">>)
Today == StrV(<<"t", "o", "d", "a", "y">>)

\* ---- parsed JSON documents (what json.loads returns) ----
EmptyObj == [k \in {} |-> NA]
None == [kind |-> "null", len |-> 0, obj |-> EmptyObj]
JList(n) == [kind |-> "list", len |-> n, obj |-> EmptyObj]
JObj(f) == [kind |-> "obj", len |-> Cardinality(DOMAIN f), obj |-> f]

\* the values the remote service puts into the fields
PidVals == {IntV(12), StrV(<<"1", "2">>), NA}
TextVal(k) ==
    CASE k = "patient_name" -> StrV(<<"B", "r", "u", "n", "o">>)
      [] k = "patient_dose" -> StrV(<<"2", "c", "c">>)
      [] OTHER -> StrV(<<"r", "e", "s", "t">>)
KeySets ==
    { {}, {"patient_id"}, {"patient_name"},
      {"patient_id", "patient_name", "patient_dose"}, Keys }
Obj(K, p) == JObj([k \in K |-> IF k = "patient_id" THEN p ELSE TextVal(k)])
Documents == {None, JList(1)} \cup {Obj(K, p) : K \in KeySets, p \in PidVals}

\* response.text after cleanup: either parses to a document or is malformed
Malformed == [ok |-> FALSE, doc |-> None]
Text(d) == [ok |-> TRUE, doc |-> d]
ResponseTexts == {Malformed} \cup {Text(d) : d \in Documents}

\* ---- Python semantics used by the code ----
\* bool(x) of a parsed document: None, {} and [] are falsy
Truthy(d) == d.kind # "null" /\ d.len > 0

DigitChars == <<"0", "1", "2", "3", "4", "5", "6", "7", "8", "9">>
IsDigit(c) == \E k \in 1..10 : DigitChars[k] = c
DigitVal(c) == (CHOOSE k \in 1..10 : DigitChars[k] = c) - 1
RECURSIVE StrToInt(_)
StrToInt(s) ==
    IF Len(s) = 0 THEN 0
    ELSE StrToInt(SubSeq(s, 1, Len(s) - 1)) * 10 + DigitVal(s[Len(s)])
\* int(v) raises ValueError on a string that is not a decimal literal
IntRaises(v) ==
    \/ v.kind = "nan"
    \/ v.kind = "str" /\ (Len(v.s) = 0 \/ \E k \in 1..Len(v.s) : ~IsDigit(v.s[k]))
PyInt(v) == IF v.kind = "int" THEN v.n ELSE StrToInt(v.s)

\* d.get(k, default) on a mapping
Get(d, k, default) == IF k \in DOMAIN d.obj THEN d.obj[k] ELSE default

VARIABLES
    variant,         \* "interactive" (frontend.py) or "batch" (version1.py)
    creds,           \* the configuration values that are set
    uploaded_files,  \* per run: the file list (uploaded_files / audio_files)
    pc,              \* per run: position in the script
    i,               \* per run: index of the file being processed (1-based)
    attempt,         \* per run: loop variable of process_audio_file
    audio_file,      \* per run: remote handle, state and uploaded bytes
    polls,           \* per run: PROCESSING answers seen in this attempt
    response,        \* per run: cleaned response text of this attempt
    extracted_data,  \* per run: value returned by process_audio_file
    all_records,     \* per run: the ResultSet
    notices,         \* per run: operator-visible messages, in order
    export,          \* per run: the export table, once built
    fs,              \* working directory: name -> NoFile or the run whose bytes it holds
    sb_table,        \* rows of veterinary_records
    calls,           \* per run: extraction attempts started for the current file
    failed,          \* per run: attempts of the current file that raised
    recFile,         \* per run: for each Record of all_records, the index of its file
    hist,            \* per run: what process_audio_file returned, file by file
    gen_requests,    \* per run: generation requests issued in the current attempt
    waited,          \* per run: time spent in retry delays for the current file
    inserts,         \* per run: the files for which a row insert was executed
    raw_text,        \* response cleanup on its own: response.text
    cleaned_response \* response cleanup on its own: the cleaned text, once computed

vars == <<variant, creds, uploaded_files, pc, i, attempt, audio_file, polls,
          response, extracted_data, all_records, notices, export, fs,
          sb_table, calls, failed, recFile, hist, gen_requests, waited,
          inserts, raw_text, cleaned_response>>

Upd(f, s, v) == [f EXCEPT ![s] = v]
CurName(s) == uploaded_files[s][i[s]]
Notice(kind, file, n) == [kind |-> kind, file |-> file, n |-> n]
Say(s, kind, file, n) == Upd(notices, s, Append(notices[s], Notice(kind, file, n)))
NoHandle == [state |-> "NONE", bytes |-> NoFile]
NoExport == [built |-> FALSE, columns |-> <<>>, rows |-> <<>>]
FirstStep == IF variant = "interactive" THEN "write" ELSE "upload"
Returned(s, doc) ==
    Upd(hist, s, Append(hist[s],
        [file |-> i[s], calls |-> calls[s], failed |-> failed[s],
         waited |-> waited[s], text |-> response[s], result |-> doc]))

\* ---- startup ----
RequiredCreds_api_key_only == {"GOOGLE_API_KEY"}
RequiredCreds == IF variant = "interactive" THEN CredNames ELSE {"GOOGLE_API_KEY"}

check_credentials(s) ==
    /\ pc[s] = "idle"
    /\ IF RequiredCreds \subseteq creds
       THEN /\ pc' = Upd(pc, s, "ready")
            /\ notices' = notices
       ELSE /\ pc' = Upd(pc, s, "stopped")
            /\ notices' = Say(s, "missing_credentials", 0, 0)
    /\ UNCHANGED <<raw_text, cleaned_response, gen_requests, waited, inserts, variant, creds, uploaded_files, i, attempt, audio_file, polls,
                   response, extracted_data, all_records, export, fs, sb_table,
                   calls, failed, recFile, hist>>

\* the "Process Audio Files" button (disabled without files) / main()
StartRun(s) ==
    /\ pc[s] = "ready"
    /\ variant = "interactive" => uploaded_files[s] # <<>>
    /\ IF uploaded_files[s] = <<>>
       THEN /\ pc' = Upd(pc, s, "done")
            /\ notices' = Say(s, "no_audio_files", 0, 0)
       ELSE /\ pc' = Upd(pc, s, "loop")
            /\ notices' = notices
    /\ i' = Upd(i, s, 1)
    /\ all_records' = Upd(all_records, s, <<>>)
    /\ UNCHANGED <<raw_text, cleaned_response, gen_requests, waited, inserts, variant, creds, uploaded_files, attempt, audio_file, polls,
                   response, extracted_data, export, fs, sb_table,
                   calls, failed, recFile, hist>>

\* head of the per-file loop: call process_audio_file or leave the loop
NextFile(s) ==
    /\ pc[s] = "loop"
    /\ IF i[s] <= Len(uploaded_files[s])
       THEN pc' = Upd(pc, s, FirstStep)
       ELSE pc' = Upd(pc, s, "export")
    /\ attempt' = Upd(attempt, s, 0)
    /\ calls' = Upd(calls, s, 0)
    /\ failed' = Upd(failed, s, 0)
    /\ gen_requests' = Upd(gen_requests, s, 0)
    /\ waited' = Upd(waited, s, 0)
    /\ UNCHANGED <<raw_text, cleaned_response, inserts, variant, creds, uploaded_files, i, audio_file, polls, response,
                   extracted_data, all_records, notices, export, fs, sb_table,
                   recFile, hist>>

\* ---- process_audio_file ----
\* the temporary copy after the cleanup of the last failed attempt
CleanupOnFailure_skipped(f, name) == f
CleanupOnFailure(f, name) ==
    IF variant = "interactive" THEN [f EXCEPT ![name] = NoFile] ELSE f

\* the notices of the except branch before the retry decision
ExceptNotices_silent(log, name, n) == log
ExceptNotices(log, name, n) == Append(log, Notice("attempt_failed", name, n))

\* except Exception: warn, then sleep and retry, or give up after the last attempt.
\* The locals of the attempt (handle, response) are dead from here on.
Raise(s) ==
    LET warned == ExceptNotices(notices[s], CurName(s), attempt[s] + 1) IN
    /\ failed' = Upd(failed, s, failed[s] + 1)
    /\ audio_file' = Upd(audio_file, s, NoHandle)
    /\ polls' = Upd(polls, s, 0)
    /\ response' = Upd(response, s, Malformed)
    /\ IF attempt[s] < max_retries - 1
       THEN /\ pc' = Upd(pc, s, "sleep")
            /\ notices' = Upd(notices, s, warned)
            /\ UNCHANGED <<fs, extracted_data, hist>>
       ELSE /\ pc' = Upd(pc, s, "check")
            /\ notices' = Upd(notices, s,
                    Append(warned, Notice("all_retries_failed", CurName(s), 0)))
            /\ fs' = CleanupOnFailure(fs, CurName(s))
            /\ extracted_data' = Upd(extracted_data, s, None)
            /\ hist' = Upd(hist, s, Append(hist[s],
                    [file |-> i[s], calls |-> calls[s], failed |-> failed[s] + 1,
                     waited |-> waited[s], text |-> Malformed, result |-> None]))

\* with open(name, "wb") as f: f.write(...)
WriteTemp(s) ==
    /\ pc[s] = "write"
    /\ calls' = Upd(calls, s, calls[s] + 1)
    /\ fs' = [fs EXCEPT ![CurName(s)] = s]
    /\ pc' = Upd(pc, s, "upload")
    /\ UNCHANGED <<raw_text, cleaned_response, gen_requests, waited, inserts, variant, creds, uploaded_files, i, attempt, audio_file, polls,
                   response, extracted_data, all_records, notices, export,
                   sb_table, failed, recFile, hist>>

HandleStates == {"PROCESSING", "READY", "FAILED"}

\* genai.upload_file(path): reads the file at path, may raise
Upload(s) ==
    /\ pc[s] = "upload"
    /\ calls' = IF variant = "batch" THEN Upd(calls, s, calls[s] + 1) ELSE calls
    /\ \/ Raise(s)
       \/ /\ variant = "interactive" => fs[CurName(s)] # NoFile
          /\ \E st \in HandleStates :
                audio_file' = Upd(audio_file, s,
                    [state |-> st,
                     bytes |-> IF variant = "interactive" THEN fs[CurName(s)] ELSE s])
          /\ pc' = Upd(pc, s, "wait")
          /\ UNCHANGED <<fs, extracted_data, notices, failed, hist, polls, response>>
    /\ UNCHANGED <<raw_text, cleaned_response, gen_requests, waited, inserts, variant, creds, uploaded_files, i, attempt,
                   all_records, export, sb_table, recFile>>

\* while state == PROCESSING: sleep(2); audio_file = genai.get_file(name)
PollRemote(s) ==
    /\ pc[s] = "wait"
    /\ audio_file[s].state = "PROCESSING"
    /\ \/ Raise(s)
       \/ /\ \E st \in HandleStates :
                /\ st = "PROCESSING" => polls[s] < MaxPolls
                /\ audio_file' = Upd(audio_file, s, [audio_file[s] EXCEPT !.state = st])
                /\ polls' = Upd(polls, s, IF st = "PROCESSING" THEN polls[s] + 1 ELSE polls[s])
          /\ UNCHANGED <<pc, fs, extracted_data, notices, failed, hist, response>>
    /\ UNCHANGED <<raw_text, cleaned_response, gen_requests, waited, inserts, variant, creds, uploaded_files, i, attempt,
                   all_records, export, sb_table, calls, recFile>>

\* the handle states in which the code goes on to generate_content:
\* the polling loop has ended and the FAILED check has not raised
MayGenerate_without_failed_check(st) == st # "PROCESSING"
MayGenerate(st) == st = "READY"

\* if state == FAILED: raise; response = model.generate_content(...); cleanup of response.text
Generate(s) ==
    /\ pc[s] = "wait"
    /\ audio_file[s].state # "PROCESSING"
    /\ gen_requests' = IF MayGenerate(audio_file[s].state)
                       THEN Upd(gen_requests, s, gen_requests[s] + 1)
                       ELSE gen_requests
    /\ \/ Raise(s)
       \/ /\ MayGenerate(audio_file[s].state)
          /\ \E text \in ResponseTexts : response' = Upd(response, s, text)
          /\ pc' = Upd(pc, s, IF variant = "interactive" THEN "remove" ELSE "parse")
          /\ UNCHANGED <<fs, extracted_data, notices, failed, hist, audio_file, polls>>
    /\ UNCHANGED <<raw_text, cleaned_response, waited, inserts, variant, creds, uploaded_files, i, attempt,
                   all_records, export, sb_table, calls, recFile>>

\* os.remove(uploaded_file.name): raises when the file is not there
RemoveTemp(s) ==
    /\ pc[s] = "remove"
    /\ IF fs[CurName(s)] = NoFile
       THEN Raise(s)
       ELSE /\ fs' = [fs EXCEPT ![CurName(s)] = NoFile]
            /\ pc' = Upd(pc, s, "parse")
            /\ UNCHANGED <<extracted_data, notices, failed, hist, audio_file, polls, response>>
    /\ UNCHANGED <<raw_text, cleaned_response, gen_requests, waited, inserts, variant, creds, uploaded_files, i, attempt,
                   all_records, export, sb_table, calls, recFile>>

\* return json.loads(cleaned_response)
Parse(s) ==
    /\ pc[s] = "parse"
    /\ IF ~response[s].ok
       THEN Raise(s)
       ELSE /\ extracted_data' = Upd(extracted_data, s, response[s].doc)
            /\ hist' = Returned(s, response[s].doc)
            /\ pc' = Upd(pc, s, "check")
            /\ audio_file' = Upd(audio_file, s, NoHandle)
            /\ polls' = Upd(polls, s, 0)
            /\ response' = Upd(response, s, Malformed)
            /\ UNCHANGED <<fs, notices, failed>>
    /\ UNCHANGED <<raw_text, cleaned_response, gen_requests, waited, inserts, variant, creds, uploaded_files, i, attempt,
                   all_records, export, sb_table, calls, recFile>>

\* time.sleep(5), then the next iteration of the retry loop
Sleep(s) ==
    /\ pc[s] = "sleep"
    /\ waited' = Upd(waited, s, waited[s] + RetryDelay)
    /\ gen_requests' = Upd(gen_requests, s, 0)
    /\ attempt' = Upd(attempt, s, attempt[s] + 1)
    /\ pc' = Upd(pc, s, FirstStep)
    /\ UNCHANGED <<raw_text, cleaned_response, inserts, variant, creds, uploaded_files, i, audio_file, polls, response,
                   extracted_data, all_records, notices, export, fs, sb_table,
                   calls, failed, recFile, hist>>

\* ---- record assembly and sink ----
RecordKeys == Keys \cup {"record_date"}

\* frontend.py: the record literal
Assemble_name_key_typo(d) ==
    [k \in RecordKeys |->
        CASE k = "patient_id" -> IntV(PyInt(Get(d, "patient_id", IntV(0))))
          [] k = "record_date" -> Today
          [] k = "patient_name" -> NA
          [] OTHER -> Get(d, k, NA)]
Assemble(d) ==
    [k \in RecordKeys |->
        CASE k = "patient_id" -> IntV(PyInt(Get(d, "patient_id", IntV(0))))
          [] k = "record_date" -> Today
          [] OTHER -> Get(d, k, NA)]

\* version1.py: extracted_data['date'] = ...; the record is the response mapping itself
AddDate(d) ==
    [k \in (DOMAIN d.obj) \cup {"date"} |-> IF k = "date" THEN Today ELSE d.obj[k]]

\* the uncaught exceptions of the loop body
AssemblyRaises(d) ==
    IF variant = "interactive"
    THEN d.kind # "obj" \/ IntRaises(Get(d, "patient_id", IntV(0)))
    ELSE d.kind # "obj"

\* all_records after the try/except around the insert
RecordsAfterSink_inside_try(records, record, inserted) ==
    IF inserted THEN Append(records, record) ELSE records
RecordsAfterSink_prepend(records, record, inserted) == <<record>> \o records
RecordsAfterSink(records, record, inserted) == Append(records, record)

\* the insert calls made for one assembled record: execute() is called once
InsertCalls_retry_on_error(log, file, inserted) ==
    IF inserted THEN Append(log, file) ELSE Append(Append(log, file), file)
InsertCalls(log, file, inserted) == Append(log, file)

\* if extracted_data: ... else: ...   (one iteration of the loop after the call)
AssembleAndSink(s) ==
    LET d == extracted_data[s]
        name == CurName(s) IN
    /\ pc[s] = "check"
    /\ IF ~Truthy(d)
       THEN /\ notices' = Say(s, "could_not_process", name, 0)
            /\ i' = Upd(i, s, i[s] + 1)
            /\ pc' = Upd(pc, s, "loop")
            /\ UNCHANGED <<all_records, recFile, sb_table, inserts>>
       ELSE IF AssemblyRaises(d)
       THEN /\ notices' = Say(s, "uncaught_exception", name, 0)
            /\ pc' = Upd(pc, s, "crashed")
            /\ UNCHANGED <<i, all_records, recFile, sb_table, inserts>>
       ELSE IF variant = "interactive"
       THEN \E inserted \in BOOLEAN :
            /\ sb_table' = IF inserted THEN Append(sb_table, Assemble(d)) ELSE sb_table
            /\ inserts' = Upd(inserts, s, InsertCalls(inserts[s], i[s], inserted))
            /\ notices' = Say(s, IF inserted THEN "inserted" ELSE "insert_error", name, 0)
            /\ all_records' = Upd(all_records, s,
                                  RecordsAfterSink(all_records[s], Assemble(d), inserted))
            /\ recFile' = Upd(recFile, s,
                              RecordsAfterSink(recFile[s], i[s], inserted))
            /\ i' = Upd(i, s, i[s] + 1)
            /\ pc' = Upd(pc, s, "loop")
       ELSE /\ all_records' = Upd(all_records, s, Append(all_records[s], AddDate(d)))
            /\ recFile' = Upd(recFile, s, Append(recFile[s], i[s]))
            /\ notices' = Say(s, "extracted", name, 0)
            /\ i' = Upd(i, s, i[s] + 1)
            /\ pc' = Upd(pc, s, "loop")
            /\ UNCHANGED <<sb_table, inserts>>
    /\ extracted_data' = Upd(extracted_data, s, None)
    /\ gen_requests' = Upd(gen_requests, s, 0)
    /\ UNCHANGED <<raw_text, cleaned_response, waited, variant, creds, uploaded_files, attempt, audio_file, polls,
                   response, export, fs, calls, failed, hist>>

\* ---- export table ----
SourceColumns ==
    <<"patient_id", "patient_name", "patient_dose", "notes_for_doctor",
      IF variant = "interactive" THEN "record_date" ELSE "date">>
DisplayColumns ==
    <<"Patient ID", "Patient Name", "Patient Dose",
      IF variant = "interactive" THEN "Notes for Doctor" ELSE "Notes for doctor",
      "Date">>
\* pd.DataFrame(list of dicts): the columns are the union of the keys
DataFrameColumns(records) == UNION {DOMAIN records[r] : r \in 1..Len(records)}
\* final_df[[...]] raises KeyError when a selected column is missing
SelectRaises(records) ==
    \E c \in 1..Len(SourceColumns) : SourceColumns[c] \notin DataFrameColumns(records)
ExportRows(records) ==
    [r \in 1..Len(records) |->
        [c \in 1..Len(SourceColumns) |->
            IF SourceColumns[c] \in DOMAIN records[r]
            THEN records[r][SourceColumns[c]] ELSE NaN]]

BuildExport(s) ==
    /\ pc[s] = "export"
    /\ IF all_records[s] = <<>>
       THEN /\ notices' = Say(s, "no_data_extracted", 0, 0)
            /\ pc' = Upd(pc, s, "done")
            /\ export' = export
       ELSE IF SelectRaises(all_records[s])
       THEN /\ notices' = Say(s, "uncaught_exception", 0, 0)
            /\ pc' = Upd(pc, s, "crashed")
            /\ export' = export
       ELSE /\ export' = Upd(export, s,
                    [built |-> TRUE, columns |-> DisplayColumns,
                     rows |-> ExportRows(all_records[s])])
            /\ pc' = Upd(pc, s, "done")
            /\ \E saved \in BOOLEAN :
                 /\ ~saved => variant = "batch"
                 /\ notices' = Say(s, IF saved THEN "export_ready" ELSE "export_save_error", 0, 0)
    /\ UNCHANGED <<raw_text, cleaned_response, gen_requests, waited, inserts, variant, creds, uploaded_files, i, attempt, audio_file, polls,
                   response, extracted_data, all_records, fs, sb_table,
                   calls, failed, recFile, hist>>

\* ---- response cleanup: strip, remove the json fence, remove the fence, strip ----
\* the backtick character is written "^" here, which the remote texts of the
\* model never contain otherwise
Backtick == "^"
Fence == <<Backtick, Backtick, Backtick>>
JsonFence == Fence \o <<"j", "s", "o", "n">>
IsSpace(c) == c \in {" ", "\n", "\t"}

RECURSIVE LStrip(_)
LStrip(s) == IF Len(s) > 0 /\ IsSpace(s[1]) THEN LStrip(Tail(s)) ELSE s
RECURSIVE RStrip(_)
RStrip(s) ==
    IF Len(s) > 0 /\ IsSpace(s[Len(s)]) THEN RStrip(SubSeq(s, 1, Len(s) - 1)) ELSE s
\* str.strip()
PyStrip(s) == RStrip(LStrip(s))

\* str.replace(old, ""): every non-overlapping occurrence, left to right
RECURSIVE PyRemove(_, _)
PyRemove(s, old) ==
    IF Len(s) < Len(old) THEN s
    ELSE IF SubSeq(s, 1, Len(old)) = old
         THEN PyRemove(SubSeq(s, Len(old) + 1, Len(s)), old)
         ELSE <<s[1]>> \o PyRemove(Tail(s), old)

CleanedText(text) == PyStrip(PyRemove(PyRemove(PyStrip(text), JsonFence), Fence))

NotCleaned == [done |-> FALSE, text |-> <<>>]

\* the texts the remote service may answer with
InnerChars == {Backtick, "a", " "}
ObjectTexts ==
    { <<"{">> \o inner \o <<"}">> :
        inner \in UNION {[1..n -> InnerChars] : n \in 0..MaxInner} }
Fenced(T) == JsonFence \o <<"\n">> \o T \o <<"\n">> \o Fence
Padded(T) == <<" ">> \o T \o <<"\n">>
RawTexts == UNION {{Fenced(T), T, Padded(T)} : T \in ObjectTexts}

\* cleaned_response = response.text.strip()...
CleanupResponse ==
    /\ ~cleaned_response.done
    /\ raw_text \in RawTexts
    /\ cleaned_response' = [done |-> TRUE, text |-> CleanedText(raw_text)]
    /\ UNCHANGED <<variant, creds, uploaded_files, pc, i, attempt, audio_file, polls,
                   response, extracted_data, all_records, notices, export, fs,
                   sb_table, calls, failed, recFile, hist, gen_requests, waited,
                   inserts, raw_text>>

\* ---- specifications ----
FileList(n) == [k \in 1..n |-> k]

InitCommon ==
    /\ i = [s \in Sessions |-> 1]
    /\ attempt = [s \in Sessions |-> 0]
    /\ audio_file = [s \in Sessions |-> NoHandle]
    /\ polls = [s \in Sessions |-> 0]
    /\ response = [s \in Sessions |-> Malformed]
    /\ extracted_data = [s \in Sessions |-> None]
    /\ all_records = [s \in Sessions |-> <<>>]
    /\ notices = [s \in Sessions |-> <<>>]
    /\ export = [s \in Sessions |-> NoExport]
    /\ fs = [n \in Names |-> NoFile]
    /\ sb_table = <<>>
    /\ calls = [s \in Sessions |-> 0]
    /\ failed = [s \in Sessions |-> 0]
    /\ recFile = [s \in Sessions |-> <<>>]
    /\ hist = [s \in Sessions |-> <<>>]
    /\ gen_requests = [s \in Sessions |-> 0]
    /\ waited = [s \in Sessions |-> 0]
    /\ inserts = [s \in Sessions |-> <<>>]

\* one run at a time: either variant, any configuration, any file list
Init ==
    /\ variant \in {"interactive", "batch"}
    /\ creds \in SUBSET CredNames
    /\ \E n \in 0..MaxFiles :
         uploaded_files = [s \in Sessions |-> IF s = 1 THEN FileList(n) ELSE <<>>]
    /\ pc = [s \in Sessions |-> IF s = 1 THEN "idle" ELSE "closed"]
    /\ InitCommon
    /\ raw_text = <<>>
    /\ cleaned_response = NotCleaned

\* two sessions of the interactive variant, each with a file of the same name
InitConc ==
    /\ variant = "interactive"
    /\ creds = CredNames
    /\ uploaded_files = [s \in Sessions |-> FileList(1)]
    /\ pc = [s \in Sessions |-> "idle"]
    /\ InitCommon
    /\ raw_text = <<>>
    /\ cleaned_response = NotCleaned

Next ==
    \/ \E s \in Sessions : check_credentials(s)
    \/ \E s \in Sessions : StartRun(s)
    \/ \E s \in Sessions : NextFile(s)
    \/ \E s \in Sessions : WriteTemp(s)
    \/ \E s \in Sessions : Upload(s)
    \/ \E s \in Sessions : PollRemote(s)
    \/ \E s \in Sessions : Generate(s)
    \/ \E s \in Sessions : RemoveTemp(s)
    \/ \E s \in Sessions : Parse(s)
    \/ \E s \in Sessions : Sleep(s)
    \/ \E s \in Sessions : AssembleAndSink(s)
    \/ \E s \in Sessions : BuildExport(s)

\* the cleanup step on its own, for every response text of RawTexts
InitClean ==
    /\ variant \in {"interactive", "batch"}
    /\ creds = CredNames
    /\ uploaded_files = [s \in Sessions |-> <<>>]
    /\ pc = [s \in Sessions |-> "closed"]
    /\ InitCommon
    /\ raw_text \in RawTexts
    /\ cleaned_response = NotCleaned

NextClean == CleanupResponse

Spec == Init /\ [][Next]_vars
SpecClean == InitClean /\ [][NextClean]_vars
\* the script is sequential code: a run that can take a step takes it; the
\* remote handle leaves PROCESSING after at most MaxPolls polls
SpecFair == Init /\ [][Next]_vars /\ WF_vars(Next)
SpecConc == InitConc /\ [][Next]_vars

\* ---- properties ----
Runs == Sessions
Entries(s) == {hist[s][k] : k \in 1..Len(hist[s])}
\* the file of entry h has been through the whole loop body
Processed(s, h) == i[s] > h.file
RecordsOf(s, file) == {r \in 1..Len(recFile[s]) : recFile[s][r] = file}
HasNotice(s, kind, file) ==
    \E k \in 1..Len(notices[s]) : notices[s][k].kind = kind /\ notices[s][k].file = file
CountNotices(s, kind, file) ==
    Cardinality({k \in 1..Len(notices[s]) :
                    notices[s][k].kind = kind /\ notices[s][k].file = file})

\* C1: process_audio_file starts at most 3 extraction attempts for a file; when
\* all 3 attempts failed it returned the failure value and no Record of the
\* ResultSet comes from that file.
C1_AtMostThreeAttempts ==
    \A s \in Runs :
        /\ calls[s] <= 3
        /\ \A h \in Entries(s) :
              /\ h.calls <= 3
              /\ h.failed = 3 => h.result = None /\ RecordsOf(s, h.file) = {}
        /\ pc[s] = "check" /\ failed[s] = 3 => extracted_data[s] = None

C1_Witness ==
    \E s \in Runs : \E h \in Entries(s) :
        h.failed = 3 /\ h.calls = 3 /\ Processed(s, h) /\ pc[s] = "done"

\* C2: after the credential check no per-file error aborts the run: the loop
\* over the files is never left by an uncaught error while files remain.
C2_NoPerFileAbort ==
    \A s \in Runs : ~(pc[s] = "crashed" /\ i[s] <= Len(uploaded_files[s]))

\* C3: interactive variant, one run: whenever process_audio_file has returned
\* for a file, no file with the name of the uploaded file exists in the
\* working directory.
C3_TempCopyRemovedOnReturn ==
    \A s \in Runs :
        variant = "interactive" /\ pc[s] = "check" => fs[CurName(s)] = NoFile

C3_Witness ==
    \E s \in Runs : \E h \in Entries(s) :
        /\ variant = "interactive" /\ pc[s] = "check" /\ h.file = i[s]
        /\ h.failed = 3
        /\ HasNotice(s, "all_retries_failed", CurName(s))

\* C4: two interactive runs on files of the same name: from its write until its
\* own removal a run finds its own bytes under the name, and every upload
\* has read the bytes its own run wrote.
C4_TempCopyIsolated ==
    \A s \in Runs :
        variant = "interactive" =>
            /\ pc[s] \in {"upload", "wait", "remove"} => fs[CurName(s)] = s
            /\ audio_file[s].state # "NONE" => audio_file[s].bytes = s

\* C5: every parsed response that is a mapping over a subset of the four keys
\* (the empty one included) yields a Record holding "N/A" for each absent text
\* field and 0 for an absent patient_id, in both variants.
C5_AbsentFieldsDefaulted ==
    \A s \in Runs : \A h \in Entries(s) :
        (h.result.kind = "obj" /\ DOMAIN h.result.obj \subseteq Keys /\ Processed(s, h)) =>
            \E r \in RecordsOf(s, h.file) :
                \A k \in Keys \ DOMAIN h.result.obj :
                    /\ k \in DOMAIN all_records[s][r]
                    /\ all_records[s][r][k] = IF k = "patient_id" THEN IntV(0) ELSE NA

\* C6: every Record of the ResultSet has exactly the four fields and the date
\* field, and its patient_id is an integer, in both variants.
C6_RecordShape ==
    \A s \in Runs : \A r \in 1..Len(all_records[s]) :
        /\ DOMAIN all_records[s][r] =
              Keys \cup {IF variant = "interactive" THEN "record_date" ELSE "date"}
        /\ all_records[s][r]["patient_id"].kind = "int"

\* C7: interactive variant: once a Record is assembled for a file, the run goes
\* on to the next file with the Record appended to the ResultSet whether the
\* insert succeeded or failed, and a failed insert is reported for that file.
C7_InsertFailureKeepsRecord ==
    [][\A s \in Runs :
        (/\ variant = "interactive"
         /\ pc[s] = "check" /\ pc'[s] # "check"
         /\ extracted_data[s].kind = "obj" /\ extracted_data[s].len > 0
         /\ ~IntRaises(Get(extracted_data[s], "patient_id", IntV(0))))
        => /\ pc'[s] = "loop"
           /\ i'[s] = i[s] + 1
           /\ Len(all_records'[s]) = Len(all_records[s]) + 1
           /\ recFile'[s] = Append(recFile[s], i[s])
           /\ \/ /\ Len(sb_table') = Len(sb_table) + 1
                 /\ sb_table'[Len(sb_table')] = all_records'[s][Len(all_records'[s])]
              \/ /\ sb_table' = sb_table
                 /\ notices'[s][Len(notices'[s])] = Notice("insert_error", CurName(s), 0)
    ]_vars

C7_Witness ==
    \E s \in Runs : \E f \in Names :
        /\ variant = "interactive" /\ pc[s] = "done" /\ export[s].built
        /\ HasNotice(s, "insert_error", f)
        /\ RecordsOf(s, f) # {}
        /\ Len(sb_table) < Len(all_records[s])

\* C8: when the first k attempts (k = 1 or 2) fail and attempt k+1 returns a
\* valid response, attempt k+1 is the last attempt for the file and exactly
\* one Record comes from the file, carrying the fields of that response.
ValidResponse(text) ==
    /\ text.ok
    /\ text.doc.kind = "obj"
    /\ DOMAIN text.doc.obj # {}
    /\ "patient_id" \in DOMAIN text.doc.obj => ~IntRaises(text.doc.obj["patient_id"])

C8_RecordFromFirstSuccess ==
    \A s \in Runs : \A h \in Entries(s) :
        (h.failed \in {1, 2} /\ ValidResponse(h.text)) =>
            /\ h.calls = h.failed + 1
            /\ h.result = h.text.doc
            /\ i[s] = h.file => calls[s] = h.calls
            /\ Processed(s, h) =>
                 /\ Cardinality(RecordsOf(s, h.file)) = 1
                 /\ \A r \in RecordsOf(s, h.file) : \A k \in DOMAIN h.text.doc.obj :
                       all_records[s][r][k] =
                           IF k = "patient_id" /\ variant = "interactive"
                           THEN IntV(PyInt(h.text.doc.obj[k]))
                           ELSE h.text.doc.obj[k]

C8_Witness ==
    \E s \in Runs : \E h \in Entries(s) :
        /\ h.failed = 2 /\ ValidResponse(h.text) /\ Processed(s, h)
        /\ "patient_name" \in DOMAIN h.text.doc.obj
        /\ pc[s] = "done"

\* C9: the ResultSet holds exactly one Record for every file whose extraction
\* result was usable, in the order in which the files were processed; a file
\* that failed adds nothing.
SucceededFiles(s) == SelectSeq(hist[s], LAMBDA h : Truthy(h.result) /\ Processed(s, h))

C9_ResultSetInProcessingOrder ==
    \A s \in Runs :
        LET ok == SucceededFiles(s) IN
        /\ Len(recFile[s]) = Len(ok)
        /\ Len(all_records[s]) = Len(ok)
        /\ \A r \in 1..Len(ok) :
              /\ recFile[s][r] = ok[r].file
              /\ \A k \in TextKeys \cap DOMAIN ok[r].result.obj :
                    all_records[s][r][k] = ok[r].result.obj[k]

C9_Witness ==
    \E s \in Runs :
        /\ pc[s] = "done" /\ export[s].built
        /\ recFile[s] = <<1, 2>>
        /\ all_records[s][1] # all_records[s][2]

\* C10: every failed attempt emits a notice; a file whose 3 attempts all failed
\* gets failure notices naming it and has no row in the export.
C10_FailuresAreReported ==
    \A s \in Runs :
        /\ pc[s] \in {"write", "upload", "wait", "remove", "parse", "sleep", "check"} =>
              CountNotices(s, "attempt_failed", CurName(s)) = failed[s]
        /\ \A h \in Entries(s) :
              LET name == uploaded_files[s][h.file] IN
              /\ CountNotices(s, "attempt_failed", name) = h.failed
              /\ h.failed = 3 =>
                    /\ HasNotice(s, "all_retries_failed", name)
                    /\ Processed(s, h) =>
                          /\ HasNotice(s, "could_not_process", name)
                          /\ RecordsOf(s, h.file) = {}
                          /\ export[s].built => Len(export[s].rows) = Len(recFile[s])

C10_Witness ==
    \E s \in Runs : \E h \in Entries(s) :
        /\ h.failed = 3 /\ pc[s] = "done" /\ export[s].built
        /\ HasNotice(s, "could_not_process", uploaded_files[s][h.file])

\* the run has started no extraction attempt and holds no file, handle or record
Untouched(s) ==
    /\ calls[s] = 0 /\ hist[s] = <<>> /\ all_records[s] = <<>>
    /\ audio_file[s] = NoHandle
    /\ \A n \in Names : fs[n] # s

\* C11 (as stated): in both variants no file is uploaded or processed in a run
\* in which any of the three credentials is absent.
C11_AllThreeCredentialsRequired ==
    \A s \in Runs : creds # CredNames => Untouched(s)

\* C11 (amended): no file is uploaded or processed in a run in which a
\* credential the variant reads is absent: any of the three in the interactive
\* variant, the remote-service API key in the batch variant.
C11_RequiredCredentialsGate ==
    \A s \in Runs :
        (\/ variant = "interactive" /\ creds # CredNames
         \/ variant = "batch" /\ "GOOGLE_API_KEY" \notin creds)
        => /\ pc[s] \in {"idle", "stopped", "closed"}
           /\ Untouched(s)
           /\ sb_table = <<>>

C11_Witness ==
    \E s \in Runs :
        /\ variant = "interactive"
        /\ creds = CredNames \ {"SUPABASE_KEY"}
        /\ uploaded_files[s] # <<>>
        /\ pc[s] = "stopped"
        /\ HasNotice(s, "missing_credentials", 0)

\* C12: whenever an export table is produced, in either variant, its columns
\* are exactly Patient ID, Patient Name, Patient Dose, Notes for Doctor, Date,
\* in this order.
C12_ExportColumnOrder ==
    \A s \in Runs :
        export[s].built =>
            export[s].columns =
                <<"Patient ID", "Patient Name", "Patient Dose", "Notes for Doctor", "Date">>

\* C14: a file is reported as not processed only after all 3 of its attempts
\* have failed; a response that parsed on some attempt never leads there.
C14_FailedOnlyAfterThreeAttempts ==
    \A s \in Runs : \A h \in Entries(s) :
        HasNotice(s, "could_not_process", uploaded_files[s][h.file]) =>
            h.failed = 3 /\ ~h.text.ok

\* C15: with handles that leave PROCESSING, every file of a started run ends
\* in exactly one of PERSISTED, PERSIST_FAILED, FAILED, the run terminates, and
\* a file is in the export iff it ended PERSISTED or PERSIST_FAILED.
TerminalStates(s, k) ==
    {st \in {"PERSISTED", "PERSIST_FAILED", "FAILED"} :
        HasNotice(s, CASE st = "PERSISTED" -> "inserted"
                       [] st = "PERSIST_FAILED" -> "insert_error"
                       [] OTHER -> "could_not_process",
                  uploaded_files[s][k])}
InExport(s, k) == export[s].built /\ RecordsOf(s, k) # {}
RunComplete(s) ==
    /\ pc[s] = "done"
    /\ \A k \in 1..Len(uploaded_files[s]) :
          /\ Cardinality(TerminalStates(s, k)) = 1
          /\ InExport(s, k) <=> TerminalStates(s, k) \subseteq {"PERSISTED", "PERSIST_FAILED"}

C15_EveryFileReachesTerminalState ==
    \A s \in Runs : (variant = "interactive" /\ pc[s] = "loop") ~> RunComplete(s)

\* C16: a generation request is issued only with the handle in state READY,
\* at most once per attempt; a FAILED handle fails the attempt with no request.
C16_GenerateOnlyWhenReady ==
    [][\A s \in Runs :
        /\ gen_requests'[s] > gen_requests[s] =>
              /\ audio_file[s].state = "READY"
              /\ gen_requests[s] = 0 /\ gen_requests'[s] = 1
        /\ (response'[s] # response[s] /\ response'[s].ok) => audio_file[s].state = "READY"
        /\ (pc[s] = "wait" /\ audio_file[s].state = "FAILED" /\ pc'[s] # "wait") =>
              /\ gen_requests'[s] = gen_requests[s]
              /\ failed'[s] = failed[s] + 1
              /\ response'[s] = Malformed
    ]_vars

C16_Witness ==
    \E s \in Runs :
        /\ gen_requests[s] = 1
        /\ audio_file[s].state = "READY" /\ polls[s] >= 1
        /\ response[s].ok
        /\ failed[s] >= 1

\* C17: one wait of 5 time units follows each failed attempt 1 and 2, before
\* the next attempt; no wait follows a failed attempt 3 or a successful attempt.
C17_FixedRetryDelay ==
    \A s \in Runs :
        /\ pc[s] \in {"write", "upload", "wait", "remove", "parse"} =>
              failed[s] = attempt[s] /\ waited[s] = 5 * attempt[s]
        /\ pc[s] = "sleep" => failed[s] \in {1, 2} /\ waited[s] = 5 * (failed[s] - 1)
        /\ pc[s] = "check" => waited[s] = 5 * (IF failed[s] = 3 THEN 2 ELSE failed[s])
        /\ \A h \in Entries(s) : h.waited = 5 * (IF h.failed = 3 THEN 2 ELSE h.failed)

C17_Witness ==
    \E s \in Runs : \E h, g \in Entries(s) :
        /\ h.failed = 3 /\ h.waited = 10
        /\ g.failed = 1 /\ g.waited = 5 /\ g.text.ok
        /\ pc[s] = "done"

\* C18: interactive variant: the row insert is executed at most once per file,
\* only for a file whose extraction returned a usable result and whose Record
\* was assembled; a file whose extraction failed causes no insert.
InsertsFor(s, k) == {j \in 1..Len(inserts[s]) : inserts[s][j] = k}

C18_InsertAtMostOncePerFile ==
    \A s \in Runs :
        /\ variant = "batch" => inserts[s] = <<>> /\ sb_table = <<>>
        /\ \A k \in 1..Len(uploaded_files[s]) :
              /\ Cardinality(InsertsFor(s, k)) <= 1
              /\ InsertsFor(s, k) # {} =>
                    /\ \E h \in Entries(s) :
                          h.file = k /\ h.text.ok /\ h.failed < 3 /\ h.result.kind = "obj"
                    /\ Cardinality(RecordsOf(s, k)) = 1
        /\ \A h \in Entries(s) : (h.failed = 3 \/ ~Truthy(h.result)) => InsertsFor(s, h.file) = {}

C18_Witness ==
    \E s \in Runs :
        /\ variant = "interactive" /\ pc[s] = "done"
        /\ inserts[s] = <<2>>
        /\ \E h \in Entries(s) : h.file = 1 /\ h.failed = 3
        /\ HasNotice(s, "insert_error", 2)

\* C13: for every object text T the cleanup of T wrapped in a json code fence
\* returns exactly T, and the cleanup of the unfenced T (with or without
\* surrounding whitespace) returns T.
C13_FenceStripIdentity ==
    cleaned_response.done =>
        \A T \in ObjectTexts :
            raw_text \in {Fenced(T), T, Padded(T)} => cleaned_response.text = T

====
